---------------------------- MODULE Spec2Model ----------------------------
(***************************************************************************)
(* Model of the calendar page of home-dashboard                            *)
(* (src/src/dashboard/pages/calendar.py): the date arithmetic, the         *)
(* recurrence expansion of insert_events_bulk, the three-month cache       *)
(* window kept in the dcc.Store components, and the Dash callbacks that    *)
(* read and write them.                                                    *)
(*                                                                         *)
(* Python values are modelled as follows.                                  *)
(*   datetime.date      record [year, month, day]                          *)
(*   datetime.time      record [hour, minute]                              *)
(*   str                sequence of one-character strings                  *)
(*   None / a value     Optional: <<>> is None, <<v>> is the value v       *)
(*   dict str -> list   function from the key set to sequences             *)
(***************************************************************************)
EXTENDS Integers, Sequences, FiniteSets, TLC

VARIABLES
    cal_month,      \* dcc.Store "cal-month": [year, month]
    selected_date,  \* dcc.Store "selected-date": ISO text
    events_store,   \* dcc.Store "events-store": ISO text -> sequence of events
    cache_range,    \* dcc.Store "events-cache-range": None or [start, end]
    events_loading, \* dcc.Store "events-loading"
    db_flash,       \* dcc.Store "db-flash": name of the flash message
    modal_opened,   \* add-event-modal "opened"
    table,          \* rows of calendar_events in id order
    pending,        \* a change of cal-month not yet handled by load_or_use_cache
    last,           \* the last run of load_or_use_cache or save_event: its gateway calls
    call            \* the pure function applied last, its arguments and result

vars == <<cal_month, selected_date, events_store, cache_range, events_loading,
          db_flash, modal_opened, table, pending, last, call>>

session == <<cal_month, selected_date, events_store, cache_range,
             events_loading, db_flash, modal_opened, table, pending, last>>

---------------------------------------------------------------------------
(* Optional values *)

None == <<>>

Some(v) == <<v>>

IsNone(o) == o = <<>>

Val(o) == o[1]

---------------------------------------------------------------------------
(* datetime.date *)

Date(y, m, d) == [year |-> y, month |-> m, day |-> d]

IsLeap(y) == (y % 4 = 0) /\ ((y % 100 # 0) \/ (y % 400 = 0))

DaysInMonthTable == <<31, 28, 31, 30, 31, 30, 31, 31, 30, 31, 30, 31>>

DaysInMonth(y, m) == IF m = 2 /\ IsLeap(y) THEN 29 ELSE DaysInMonthTable[m]

DaysBeforeMonthTable == <<0, 31, 59, 90, 120, 151, 181, 212, 243, 273, 304, 334>>

DaysBeforeMonth(y, m) ==
    DaysBeforeMonthTable[m] + (IF m > 2 /\ IsLeap(y) THEN 1 ELSE 0)

DaysBeforeYear(y) ==
    LET p == y - 1
    IN  p * 365 + (p \div 4) - (p \div 100) + (p \div 400)

\* date.toordinal(): 1 for 0001-01-01
ToOrdinal(d) == DaysBeforeYear(d.year) + DaysBeforeMonth(d.year, d.month) + d.day

\* date.fromordinal(n)
FromOrdinal(n) ==
    LET n0   == n - 1
        n400 == n0 \div 146097
        r400 == n0 % 146097
        n100 == r400 \div 36524
        r100 == r400 % 36524
        n4   == r100 \div 1461
        r4   == r100 % 1461
        n1   == r4 \div 365
        r1   == r4 % 365
        y    == n400 * 400 + 1 + n100 * 100 + n4 * 4 + n1
    IN  IF n1 = 4 \/ n100 = 4
        THEN Date(y - 1, 12, 31)
        ELSE LET leap == (n1 = 3) /\ (n4 # 24 \/ n100 = 3)
                 m0   == (r1 + 50) \div 32
                 p0   == DaysBeforeMonthTable[m0] + (IF m0 > 2 /\ leap THEN 1 ELSE 0)
                 m    == IF p0 > r1 THEN m0 - 1 ELSE m0
                 p    == IF p0 > r1
                         THEN p0 - (DaysInMonthTable[m] + (IF m = 2 /\ leap THEN 1 ELSE 0))
                         ELSE p0
             IN  Date(y, m, r1 - p + 1)

\* date + timedelta(days=k)
AddDays(d, k) == FromOrdinal(ToOrdinal(d) + k)

\* date.weekday(): Monday is 0, Sunday is 6
Weekday(d) == (ToOrdinal(d) + 6) % 7

\* date comparison: (year, month, day) in lexicographic order
DateLT(a, b) ==
    \/ a.year < b.year
    \/ a.year = b.year /\ a.month < b.month
    \/ a.year = b.year /\ a.month = b.month /\ a.day < b.day

DateLE(a, b) == a = b \/ DateLT(a, b)

---------------------------------------------------------------------------
(* str: text as a sequence of characters *)

DigitChars == <<"0", "1", "2", "3", "4", "5", "6", "7", "8", "9">>

DigitChar(n) == DigitChars[n + 1]

IsDigit(c) == \E i \in 1..10 : DigitChars[i] = c

DigitVal(c) == (CHOOSE i \in 1..10 : DigitChars[i] = c) - 1

\* "%02d"
Pad2(n) == <<DigitChar((n \div 10) % 10), DigitChar(n % 10)>>

\* "%04d"
Pad4(n) == <<DigitChar((n \div 1000) % 10), DigitChar((n \div 100) % 10)>> \o Pad2(n)

\* date.isoformat(): "YYYY-MM-DD"
IsoFormat(d) == Pad4(d.year) \o <<"-">> \o Pad2(d.month) \o <<"-">> \o Pad2(d.day)

\* date.fromisoformat(s), datetime.strptime(s, "%Y-%m-%d").date()
FromIso(s) ==
    Date(DigitVal(s[1]) * 1000 + DigitVal(s[2]) * 100 + DigitVal(s[3]) * 10 + DigitVal(s[4]),
         DigitVal(s[6]) * 10 + DigitVal(s[7]),
         DigitVal(s[9]) * 10 + DigitVal(s[10]))

\* str.strip(): leading and trailing blanks removed
RECURSIVE LStrip(_)
LStrip(s) == IF s # <<>> /\ Head(s) = " " THEN LStrip(Tail(s)) ELSE s

RECURSIVE RStrip(_)
RStrip(s) ==
    IF s # <<>> /\ s[Len(s)] = " " THEN RStrip(SubSeq(s, 1, Len(s) - 1)) ELSE s

Strip(s) == RStrip(LStrip(s))

\* position of the first c in s, 0 when there is none
IndexOf(s, c) ==
    IF \E i \in 1..Len(s) : s[i] = c
    THEN CHOOSE i \in 1..Len(s) : s[i] = c /\ \A j \in 1..(i - 1) : s[j] # c
    ELSE 0

AllDigits(s) == \A i \in 1..Len(s) : IsDigit(s[i])

RECURSIVE Number(_)
Number(s) ==
    IF s = <<>> THEN 0 ELSE Number(SubSeq(s, 1, Len(s) - 1)) * 10 + DigitVal(s[Len(s)])

\* str(n) for n >= 0
RECURSIVE Decimal(_)
Decimal(n) ==
    IF n < 10 THEN <<DigitChar(n)>> ELSE Decimal(n \div 10) \o <<DigitChar(n % 10)>>

UpperChars ==
    <<"A", "B", "C", "D", "E", "F", "G", "H", "I", "J", "K", "L", "M",
      "N", "O", "P", "Q", "R", "S", "T", "U", "V", "W", "X", "Y", "Z">>

LowerChars ==
    <<"a", "b", "c", "d", "e", "f", "g", "h", "i", "j", "k", "l", "m",
      "n", "o", "p", "q", "r", "s", "t", "u", "v", "w", "x", "y", "z">>

\* str.lower()
Lower(s) ==
    [i \in 1..Len(s) |->
        IF \E k \in 1..26 : UpperChars[k] = s[i]
        THEN LowerChars[CHOOSE k \in 1..26 : UpperChars[k] = s[i]]
        ELSE s[i]]

\* str.lstrip("0")
RECURSIVE LStripZeros(_)
LStripZeros(s) == IF s # <<>> /\ Head(s) = "0" THEN LStripZeros(Tail(s)) ELSE s

\* "\n".join(parts)
RECURSIVE JoinLines(_)
JoinLines(parts) ==
    IF parts = <<>> THEN <<>>
    ELSE IF Len(parts) = 1 THEN parts[1]
    ELSE parts[1] \o <<"\n">> \o JoinLines(Tail(parts))

---------------------------------------------------------------------------
(* datetime.time and datetime.strptime *)

Time(h, m) == [hour |-> h, minute |-> m]

\* one- or two-digit field of strptime
IsField(s) == Len(s) \in 1..2 /\ AllDigits(s)

\* %M: [0-5]\d|\d
IsMinute(s) == IsField(s) /\ Number(s) <= 59

\* datetime.strptime(ts, "%H:%M").time(); None stands for ValueError
ParseTime24(ts) ==
    LET p  == IndexOf(ts, ":")
        hh == SubSeq(ts, 1, p - 1)
        mm == SubSeq(ts, p + 1, Len(ts))
    IN  IF p > 0 /\ IsField(hh) /\ Number(hh) <= 23 /\ IsMinute(mm)
        THEN Some(Time(Number(hh), Number(mm)))
        ELSE None

\* %p, case-insensitive: 1 for AM, 2 for PM, 0 for neither
Meridiem(s) ==
    IF Len(s) = 2 /\ s[2] \in {"M", "m"}
    THEN (IF s[1] \in {"A", "a"} THEN 1 ELSE IF s[1] \in {"P", "p"} THEN 2 ELSE 0)
    ELSE 0

\* datetime.strptime(ts, "%I:%M %p").time(); None stands for ValueError
ParseTime12(ts) ==
    LET p    == IndexOf(ts, ":")
        hh   == SubSeq(ts, 1, p - 1)
        rest == SubSeq(ts, p + 1, Len(ts))
        q    == IndexOf(rest, " ")
        mm   == SubSeq(rest, 1, q - 1)
        ap   == LStrip(SubSeq(rest, q + 1, Len(rest)))
    IN  IF /\ p > 0 /\ q > 0
           /\ IsField(hh) /\ Number(hh) \in 1..12
           /\ IsMinute(mm)
           /\ Meridiem(ap) # 0
        THEN Some(Time((Number(hh) % 12) + (IF Meridiem(ap) = 2 THEN 12 ELSE 0),
                       Number(mm)))
        ELSE None

\* time.strftime("%H:%M")
FormatHM(t) == Pad2(t.hour) \o <<":">> \o Pad2(t.minute)

\* %I taken as the hour modulo 12: midnight and noon come out as "00"
Format12_zero_hour(t) ==
    Pad2(t.hour % 12) \o <<":">> \o Pad2(t.minute)
        \o <<" ", (IF t.hour < 12 THEN "A" ELSE "P"), "M">>

\* time.strftime("%I:%M %p")
Format12(t) ==
    Pad2(IF t.hour % 12 = 0 THEN 12 ELSE t.hour % 12) \o <<":">> \o Pad2(t.minute)
        \o <<" ", (IF t.hour < 12 THEN "A" ELSE "P"), "M">>

\* lines 174-182: "" for no time, the 12h text of a 24h time, the text itself
\* when it does not parse
format_time_12h(t) ==
    IF IsNone(t) \/ Val(t) = <<>> THEN <<>>
    ELSE IF ~IsNone(ParseTime24(Val(t)))
    THEN LStripZeros(Format12(Val(ParseTime24(Val(t)))))
    ELSE Val(t)

---------------------------------------------------------------------------
(* Month arithmetic: calendar.py lines 87-104 and 188-199 *)

MonthCtx(y, m) == [year |-> y, month |-> m]

first_of_month(y, m) == Date(y, m, 1)

\* add_month with division that truncates towards zero
add_month_truncating(y, m, delta) ==
    LET i == (y * 12 + (m - 1)) + delta
    IN  IF i >= 0 THEN <<i \div 12, (i % 12) + 1>>
        ELSE <<-((-i) \div 12), (-((-i) % 12)) + 1>>

\* add_month with the month taken as it is, not zero-based
add_month_one_based(y, m, delta) ==
    LET i == (y * 12 + m) + delta
    IN  <<i \div 12, (i % 12) + 1>>

\* Python's // and % round towards minus infinity, as \div and % do
add_month(y, m, delta) ==
    LET i == (y * 12 + (m - 1)) + delta
    IN  <<i \div 12, (i % 12) + 1>>

\* window_for_month ending at the first of the next month
window_for_month_short(y, m) ==
    LET p == add_month(y, m, -1)
        n == add_month(y, m, 1)
    IN  <<first_of_month(p[1], p[2]), first_of_month(n[1], n[2])>>

window_for_month(y, m) ==
    LET p == add_month(y, m, -1)
        n == add_month(y, m, 2)
    IN  <<first_of_month(p[1], p[2]), first_of_month(n[1], n[2])>>

shift_month(y, m, delta) ==
    LET nm  == ((m - 1 + delta) % 12) + 1
        ny  == y + ((m - 1 + delta) \div 12)
        ny2 == IF nm = 12 /\ delta < 0 /\ ((m - 1 + delta) % 12) = 11
               THEN ny - 1
               ELSE ny
    IN  MonthCtx(ny2, nm)

\* [start + timedelta(days=i) for i in range(n)]
RECURSIVE DaysFrom(_, _)
DaysFrom(o, n) ==
    IF n = 0 THEN <<>> ELSE Append(DaysFrom(o, n - 1), FromOrdinal(o + n - 1))

DayList(start, n) == DaysFrom(ToOrdinal(start), n)

\* iter_month_days with the week starting on Monday
iter_month_days_monday(year, month) ==
    LET first == Date(year, month, 1)
        start == AddDays(first, -(Weekday(first) % 7))
        days  == DayList(start, 42)
    IN  <<SubSeq(days, 1, 7), SubSeq(days, 8, 14), SubSeq(days, 15, 21),
          SubSeq(days, 22, 28), SubSeq(days, 29, 35), SubSeq(days, 36, 42)>>

iter_month_days(year, month) ==
    LET first == Date(year, month, 1)
        start == AddDays(first, -((Weekday(first) + 1) % 7))
        days  == DayList(start, 42)
    IN  <<SubSeq(days, 1, 7), SubSeq(days, 8, 14), SubSeq(days, 15, 21),
          SubSeq(days, 22, 28), SubSeq(days, 29, 35), SubSeq(days, 36, 42)>>

\* d + relativedelta(months=+1): next month, the day clipped to its length
AddOneMonth(d) ==
    LET n == add_month(d.year, d.month, 1)
        k == DaysInMonth(n[1], n[2])
    IN  Date(n[1], n[2], IF d.day > k THEN k ELSE d.day)

---------------------------------------------------------------------------
(* The event table and the gateway: calendar.py lines 106-158 *)

Row(d, t, title, author) ==
    [event_date |-> d, event_time |-> t, title |-> title, author |-> author]

\* safety limit of the recurrence loop (line 146)
limit == 2000

\* lines 140-144: the step of the recurrence
Step(freq, d) ==
    IF freq = "daily" THEN AddDays(d, 1)
    ELSE IF freq = "weekly" THEN AddDays(d, 7)
    ELSE AddOneMonth(d)

\* the loop test with the end date excluded
LoopGoesOn_before_end(dates, cur, end_date) == DateLT(cur, end_date) /\ Len(dates) < limit

\* the loop test without the safety limit
LoopGoesOn_unlimited(dates, cur, end_date) == DateLE(cur, end_date)

\* line 147: cur <= end_date and len(dates) < limit
LoopGoesOn(dates, cur, end_date) == DateLE(cur, end_date) /\ Len(dates) < limit

\* the recursions over the loop and over the rows are evaluated in runs of
\* at most Run turns, which keeps their depth small
Run == 24

\* at most n turns of the while loop of lines 147-149: the dates and cur after them
RECURSIVE LoopTurns(_, _, _, _, _)
LoopTurns(dates, cur, end_date, freq, n) ==
    IF n > 0 /\ LoopGoesOn(dates, cur, end_date)
    THEN LoopTurns(Append(dates, cur), Step(freq, cur), end_date, freq, n - 1)
    ELSE <<dates, cur>>

\* the while loop of lines 145-149
RECURSIVE ExpandDates(_, _, _, _)
ExpandDates(dates, cur, end_date, freq) ==
    LET r == LoopTurns(dates, cur, end_date, freq, Run)
    IN  IF LoopGoesOn(r[1], r[2], end_date)
        THEN ExpandDates(r[1], r[2], end_date, freq)
        ELSE r[1]

\* "not freq": None and the empty text are false
Falsy(o) == IsNone(o) \/ Val(o) = ""

\* BuildDates without the test of the end date against the start date
BuildDates_unchecked_end(start_date, end_date, freq) ==
    IF Falsy(freq) \/ IsNone(end_date)
    THEN <<start_date>>
    ELSE ExpandDates(<<>>, start_date, Val(end_date), Val(freq))

\* lines 136-149: the dates insert_events_bulk persists
BuildDates(start_date, end_date, freq) ==
    IF Falsy(freq) \/ IsNone(end_date) \/ DateLE(Val(end_date), start_date)
    THEN <<start_date>>
    ELSE ExpandDates(<<>>, start_date, Val(end_date), Val(freq))

\* lines 128-134: None for no time text, otherwise the parsed time;
\* <<"ValueError">> when neither format matches
ParseTimeText(time_str) ==
    IF IsNone(time_str) \/ Val(time_str) = <<>>
    THEN [raised |-> FALSE, t |-> None]
    ELSE LET ts == Strip(Val(time_str))
         IN  IF ~IsNone(ParseTime24(ts))
             THEN [raised |-> FALSE, t |-> ParseTime24(ts)]
             ELSE IF ~IsNone(ParseTime12(ts))
             THEN [raised |-> FALSE, t |-> ParseTime12(ts)]
             ELSE [raised |-> TRUE, t |-> None]

\* line 152: one row per date
BulkRows(dates, t, title, author) ==
    [i \in 1..Len(dates) |-> Row(dates[i], t, title, author)]

\* the uniqueness constraint of calendar_events: two records are the same when
\* date, time (an absent time included), title and author are equal
SameKey(a, b) ==
    /\ a.event_date = b.event_date
    /\ a.event_time = b.event_time
    /\ a.title = b.title
    /\ a.author = b.author

\* ON CONFLICT (event_date, event_time, title, author): the row is already there
Conflicts(tbl, r) == \E i \in 1..Len(tbl) : SameKey(tbl[i], r)

\* at most n rows, from rows[i] on, inserted in order: the table and the
\* index of the next row
RECURSIVE InsertRun(_, _, _, _)
InsertRun(tbl, rows, i, n) ==
    IF n = 0 \/ i > Len(rows) THEN <<tbl, i>>
    ELSE InsertRun(IF Conflicts(tbl, rows[i]) THEN tbl ELSE Append(tbl, rows[i]),
                   rows, i + 1, n - 1)

RECURSIVE InsertFrom(_, _, _)
InsertFrom(tbl, rows, i) ==
    LET r == InsertRun(tbl, rows, i, Run)
    IN  IF r[2] > Len(rows) THEN r[1] ELSE InsertFrom(r[1], rows, r[2])

\* INSERT without the ON CONFLICT clause, on a table without the constraint
InsertRows_appending(tbl, rows) == tbl \o rows

\* INSERT ... VALUES rows ON CONFLICT ... DO NOTHING (lines 153-158)
InsertRows(tbl, rows) == InsertFrom(tbl, rows, 1)

\* lines 128-134: insert_events_bulk raises strptime's ValueError, before the
\* gateway is reached
BulkRaises(time_str) == ParseTimeText(time_str).raised

\* lines 124-158: the table after insert_events_bulk
insert_events_bulk(tbl, start_date, end_date, freq, title, author, time_str) ==
    IF BulkRaises(time_str) THEN tbl
    ELSE InsertRows(tbl, BulkRows(BuildDates(start_date, end_date, freq),
                                  ParseTimeText(time_str).t, title, author))

\* ORDER BY event_time NULLS LAST, id within one event_date
RowBefore(tbl, i, j) ==
    LET a == tbl[i].event_time
        b == tbl[j].event_time
        ka == IF IsNone(a) THEN 1440 ELSE Val(a).hour * 60 + Val(a).minute
        kb == IF IsNone(b) THEN 1440 ELSE Val(b).hour * 60 + Val(b).minute
    IN  ka < kb \/ (ka = kb /\ i < j)

RECURSIVE OrderedIds(_, _)
OrderedIds(tbl, ids) ==
    IF ids = {} THEN <<>>
    ELSE LET f == CHOOSE i \in ids : \A j \in ids \ {i} : RowBefore(tbl, i, j)
         IN  <<f>> \o OrderedIds(tbl, ids \ {f})

\* the entry with title and author taken from each other's column
EventOf_swapped(r) ==
    [title  |-> r.author,
     time   |-> IF IsNone(r.event_time) THEN None ELSE Some(FormatHM(Val(r.event_time))),
     author |-> r.title]

\* one entry of the mapping (lines 119-120)
EventOf(r) ==
    [title  |-> r.title,
     time   |-> IF IsNone(r.event_time) THEN None ELSE Some(FormatHM(Val(r.event_time))),
     author |-> r.author]

\* SELECT ... WHERE event_date >= start AND event_date < end, grouped by ISO date
fetch_events_range(tbl, start, end) ==
    LET hit  == {i \in 1..Len(tbl) :
                    DateLE(start, tbl[i].event_date) /\ DateLT(tbl[i].event_date, end)}
        keys == {IsoFormat(tbl[i].event_date) : i \in hit}
    IN  [k \in keys |->
            LET ids == OrderedIds(tbl, {i \in hit : IsoFormat(tbl[i].event_date) = k})
            IN  [n \in 1..Len(ids) |-> EventOf(tbl[ids[n]])]]

---------------------------------------------------------------------------
(* The grid: calendar.py lines 202-250 *)

\* events_map.get(iso, [])
EventsOn(events_map, iso) == IF iso \in DOMAIN events_map THEN events_map[iso] ELSE <<>>

\* line 222
BadgeColor(author) ==
    IF Lower(author) = <<"a", "m", "a", "n", "d", "a">> THEN "#d63384"
    ELSE IF Lower(author) = <<"d", "a", "n", "i", "e", "l">> THEN "#1e6ffb"
    ELSE "var(--muted)"

\* lines 218-223: the badge of one event
Badge(ev) ==
    LET label == format_time_12h(ev.time)
    IN  [text      |-> IF label # <<>> THEN label \o <<" ", "·", " ">> \o ev.title
                       ELSE ev.title,
         className |-> "cal-badge",
         style     |-> Some(BadgeColor(ev.author))]

\* the count of the overflow marker taken for the count of the day's events
more_count_total(evs) == Len(evs)

\* line 225
more_count(evs) == IF Len(evs) - 3 > 0 THEN Len(evs) - 3 ELSE 0

\* line 227
MoreBadge(n) ==
    [text      |-> <<"+">> \o Decimal(n) \o <<" ", "m", "o", "r", "e">>,
     className |-> "cal-badge cal-badge--more",
     style     |-> None]

\* lines 202-241; today is what date.today() returns when the cell is built
day_cell(day, ctx, events_map, selected_iso, today) ==
    LET iso         == IsoFormat(day)
        in_month    == day.month = ctx.month
        is_today    == day = today
        is_selected == iso = selected_iso
        evs         == EventsOn(events_map, iso)
        shown       == SubSeq(evs, 1, IF Len(evs) < 3 THEN Len(evs) ELSE 3)
        badges      == [k \in 1..Len(shown) |-> Badge(shown[k])]
    IN  [id        |-> iso,
         num       |-> Decimal(day.day),
         className |-> <<"cal-day">>
                          \o (IF ~in_month THEN <<"cal-day--out">> ELSE <<>>)
                          \o (IF is_today THEN <<"cal-day--today">> ELSE <<>>)
                          \o (IF is_selected THEN <<"cal-day--selected">> ELSE <<>>),
         badges    |-> IF more_count(evs) # 0
                       THEN badges \o <<MoreBadge(more_count(evs))>>
                       ELSE badges,
         title     |-> IF iso \in DOMAIN events_map
                       THEN Some(JoinLines([k \in 1..Len(evs) |-> evs[k].title]))
                       ELSE None]

\* lines 243-250: the six rows of cells; the clock is taken to show the same
\* day for every cell of one grid
month_grid(ctx, events_map, selected_iso, today) ==
    LET weeks == iter_month_days(ctx.year, ctx.month)
    IN  [w \in 1..6 |->
            [c \in 1..7 |-> day_cell(weeks[w][c], ctx, events_map, selected_iso, today)]]

---------------------------------------------------------------------------
(* Bounds of the session model *)

\* the page is opened on, and navigation stays within, the months
\* NavFirst..NavLast of NavYear
NavYear == 2025

NavFirst == 8

NavLast == 12

\* the table holds at most MaxRows rows
MaxRows == 2

MonthIndex(ctx) == ctx.year * 12 + (ctx.month - 1)

InNavRange(ctx) ==
    /\ MonthIndex(ctx) >= NavYear * 12 + (NavFirst - 1)
    /\ MonthIndex(ctx) <= NavYear * 12 + (NavLast - 1)

NavMonths ==
    {MonthCtx(y, m) : y \in (NavYear - 1)..(NavYear + 2), m \in 1..12}

StartMonths == {c \in NavMonths : InNavRange(c)}

\* days of the month a user clicks on
SelectDays == {5}

\* inputs of the add-event form
TitleInputs == {Some(<<" ">>), Some(<<"S", "y", "n", "c">>)}

TimeInputs == {None}

AuthorInputs == {Some(<<"D", "a", "n", "i", "e", "l">>)}

RecurInputs == {Some("none"), Some("daily")}

\* recurrence end dates offered, as days after the selected date
EndOffsets == {1}

---------------------------------------------------------------------------
(* The Dash callbacks: calendar.py lines 352-539 *)

Ran(op, io, raised) == [op |-> op, io |-> io, raised |-> raised]

Called(fn, args, out) == [fn |-> fn, args |-> args, out |-> out]

Fetch(start, end) == <<"fetch", start, end>>

Insert(rows) == <<"insert", rows>>

\* lines 359-364; Dash then calls load_or_use_cache, whose Input is cal-month
navigate(delta) ==
    /\ ~pending
    /\ LET nm == shift_month(cal_month.year, cal_month.month, delta)
       IN  /\ InNavRange(nm)
           /\ cal_month' = [year |-> nm.year, month |-> nm.month]
    /\ pending' = TRUE
    /\ UNCHANGED <<selected_date, events_store, cache_range, events_loading,
                   db_flash, modal_opened, table, last, call>>

\* the day cells of the displayed grid a user clicks on
Clickable(ctx) ==
    LET weeks == iter_month_days(ctx.year, ctx.month)
    IN  UNION {LET week == weeks[w]
               IN  {week[c] : c \in {i \in 1..7 : week[i].day \in SelectDays}} : w \in 1..6}

\* lines 392-395; the triggered id is the date of a rendered cell
select_day(day) ==
    /\ ~pending
    /\ selected_date' = IsoFormat(day)
    /\ UNCHANGED <<cal_month, events_store, cache_range, events_loading,
                   db_flash, modal_opened, table, pending, last, call>>

\* lines 504-511
toggle_modal(trig) ==
    /\ ~pending
    /\ modal_opened' = (trig = "open-add-event")
    /\ UNCHANGED <<cal_month, selected_date, events_store, cache_range,
                   events_loading, db_flash, table, pending, last, call>>

\* CacheHit with the start of the range excluded
CacheHit_after_start(ctx, range) ==
    /\ ~IsNone(range)
    /\ LET month_start == first_of_month(ctx.year, ctx.month)
           start       == FromIso(Val(range).start)
           end         == FromIso(Val(range).end)
       IN  DateLT(start, month_start) /\ DateLT(month_start, end)

\* lines 528-531: the requested month lies in the cached range
CacheHit(ctx, range) ==
    /\ ~IsNone(range)
    /\ LET month_start == first_of_month(ctx.year, ctx.month)
           start       == FromIso(Val(range).start)
           end         == FromIso(Val(range).end)
       IN  DateLE(start, month_start) /\ DateLT(month_start, end)

\* load_or_use_cache with a failed fetch taken for an empty window
load_or_use_cache_swallowing(fault) ==
    /\ pending
    /\ pending' = FALSE
    /\ IF CacheHit(cal_month, cache_range)
       THEN /\ fault = "none"
            /\ events_loading' = FALSE
            /\ last' = Ran("load_or_use_cache", <<>>, FALSE)
            /\ UNCHANGED <<events_store, cache_range>>
       ELSE LET win == window_for_month(cal_month.year, cal_month.month)
            IN  /\ fault \in {"none", "fetch"}
                /\ events_store' = IF fault = "fetch" THEN <<>>
                                   ELSE fetch_events_range(table, win[1], win[2])
                /\ cache_range' = Some([start |-> IsoFormat(win[1]),
                                        end   |-> IsoFormat(win[2])])
                /\ events_loading' = FALSE
                /\ last' = Ran("load_or_use_cache", <<Fetch(win[1], win[2])>>,
                               fault = "fetch")
    /\ UNCHANGED <<cal_month, selected_date, db_flash, modal_opened, table, call>>

\* lines 523-539; a fetch that raises leaves every Output as it was
load_or_use_cache(fault) ==
    /\ pending
    /\ pending' = FALSE
    /\ IF CacheHit(cal_month, cache_range)
       THEN /\ fault = "none"
            /\ events_loading' = FALSE
            /\ last' = Ran("load_or_use_cache", <<>>, FALSE)
            /\ UNCHANGED <<events_store, cache_range>>
       ELSE LET win == window_for_month(cal_month.year, cal_month.month)
            IN  IF fault = "fetch"
                THEN /\ last' = Ran("load_or_use_cache", <<Fetch(win[1], win[2])>>, TRUE)
                     /\ UNCHANGED <<events_store, cache_range, events_loading>>
                ELSE /\ fault = "none"
                     /\ events_store' = fetch_events_range(table, win[1], win[2])
                     /\ cache_range' = Some([start |-> IsoFormat(win[1]),
                                             end   |-> IsoFormat(win[2])])
                     /\ events_loading' = FALSE
                     /\ last' = Ran("load_or_use_cache", <<Fetch(win[1], win[2])>>, FALSE)
    /\ UNCHANGED <<cal_month, selected_date, db_flash, modal_opened, table, call>>

\* line 466
FreqOf(recur) == IF IsNone(recur) \/ recur = Some("none") THEN None ELSE recur

\* line 481
SavedMsg(freq) ==
    IF Falsy(freq) THEN "Event saved."
    ELSE IF Val(freq) = "daily" THEN "Recurring events saved (daily)."
    ELSE IF Val(freq) = "weekly" THEN "Recurring events saved (weekly)."
    ELSE "Recurring events saved (monthly)."

\* a return of False for the modal in place of no_update
Flash_closing_modal(msg, io) ==
    /\ db_flash' = msg
    /\ last' = Ran("save_event", io, FALSE)
    /\ modal_opened' = FALSE
    /\ UNCHANGED <<events_store, table>>

\* a return of (no_update, no_update, msg) before any gateway call
Flash(msg, io) ==
    /\ db_flash' = msg
    /\ last' = Ran("save_event", io, FALSE)
    /\ UNCHANGED <<events_store, modal_opened, table>>

\* lines 455-484; the save button is part of the modal.  fault names the
\* gateway call that raises, if any; save_event catches what it raises
save_event(title_in, time_str, author_in, recur, recur_end_iso, fault) ==
    /\ ~pending
    /\ modal_opened
    /\ LET title   == IF IsNone(title_in) THEN <<>> ELSE Strip(Val(title_in))
           author  == IF IsNone(author_in) THEN <<>> ELSE Strip(Val(author_in))
           start_d == FromIso(selected_date)
           freq    == FreqOf(recur)
           end_d   == IF Falsy(freq) \/ IsNone(recur_end_iso)
                      THEN None ELSE Some(FromIso(Val(recur_end_iso)))
           parsed  == ParseTimeText(time_str)
           rows    == BulkRows(BuildDates(start_d, end_d, freq), parsed.t, title, author)
           win     == window_for_month(cal_month.year, cal_month.month)
       IN  IF title = <<>>
           THEN fault = "none" /\ Flash("Title required.", <<>>)
           ELSE IF ~Falsy(freq) /\ IsNone(recur_end_iso)
           THEN fault = "none"
                /\ Flash("Please choose an end date for the recurrence.", <<>>)
           ELSE IF ~Falsy(freq) /\ DateLT(Val(end_d), start_d)
           THEN fault = "none"
                /\ Flash("End date must be on or after the start date.", <<>>)
           ELSE IF parsed.raised
           THEN fault = "none" /\ Flash("DB error", <<>>)
           ELSE IF fault = "insert"
           THEN /\ db_flash' = "DB error"
                /\ last' = Ran("save_event", <<Insert(rows)>>, TRUE)
                /\ UNCHANGED <<events_store, modal_opened, table>>
           ELSE /\ table' = InsertRows(table, rows)
                /\ IF fault = "fetch"
                   THEN /\ db_flash' = "DB error"
                        /\ last' = Ran("save_event",
                                       <<Insert(rows), Fetch(win[1], win[2])>>, TRUE)
                        /\ UNCHANGED <<events_store, modal_opened>>
                   ELSE /\ modal_opened' = FALSE
                        /\ events_store' = fetch_events_range(table', win[1], win[2])
                        /\ db_flash' = SavedMsg(freq)
                        /\ last' = Ran("save_event",
                                       <<Insert(rows), Fetch(win[1], win[2])>>, FALSE)
    /\ UNCHANGED <<cal_month, selected_date, cache_range, events_loading, pending, call>>

EndInputs ==
    {None} \cup {Some(IsoFormat(AddDays(FromIso(selected_date), k))) : k \in EndOffsets}

\* the page as layout() builds it (lines 256-261), on some day of a month in range
Init ==
    /\ cal_month \in StartMonths
    /\ selected_date \in {IsoFormat(Date(cal_month.year, cal_month.month, d)) : d \in SelectDays}
    /\ events_store = <<>>
    /\ cache_range = None
    /\ events_loading = TRUE
    /\ db_flash = ""
    /\ modal_opened = FALSE
    /\ table = <<>>
    /\ pending = TRUE
    /\ last = Ran("layout", <<>>, FALSE)
    /\ call = Called("none", <<>>, <<>>)

\* every gateway call succeeds, and the table stays within MaxRows rows
Next ==
    \/ \E delta \in {-1, 1} : navigate(delta)
    \/ \E day \in Clickable(cal_month) : select_day(day)
    \/ \E trig \in {"open-add-event", "cancel-event"} : toggle_modal(trig)
    \/ load_or_use_cache("none")
    \/ \E title_in \in TitleInputs, time_str \in TimeInputs, author_in \in AuthorInputs,
          recur \in RecurInputs, recur_end_iso \in EndInputs :
            /\ save_event(title_in, time_str, author_in, recur, recur_end_iso, "none")
            /\ Len(table') <= MaxRows

Spec == Init /\ [][Next]_vars

---------------------------------------------------------------------------
(* The date functions applied to bounded arguments *)

\* years of the dates the date functions are applied to
FirstYear == 2023

LastYear == 2026

\* month deltas range over -MaxDelta..MaxDelta
MaxDelta == 25

DateYears == FirstYear..LastYear

\* add_month and shift_month are integer arithmetic: years around 0 as well
IntYears == {-1, 0, 1} \cup DateYears

Deltas == (-MaxDelta)..MaxDelta

\* the page at rest, left alone while the functions are applied
Idle ==
    /\ cal_month = MonthCtx(NavYear, NavFirst)
    /\ selected_date = IsoFormat(Date(NavYear, NavFirst, 1))
    /\ events_store = <<>>
    /\ cache_range = None
    /\ events_loading = TRUE
    /\ db_flash = ""
    /\ modal_opened = FALSE
    /\ table = <<>>
    /\ pending = TRUE
    /\ last = Ran("layout", <<>>, FALSE)

\* the arguments are drawn first; each function is then applied to them
InitDate ==
    /\ Idle
    /\ \E y \in IntYears, m \in 1..12, delta \in Deltas :
          call = Called("args", <<y, m, delta>>, <<>>)

CallAddMonth ==
    /\ call.fn = "args"
    /\ call' = Called("add_month", call.args,
                      add_month(call.args[1], call.args[2], call.args[3]))
    /\ UNCHANGED session

\* add_month applied to the result of add_month, with the opposite delta
CallAddMonthBack ==
    /\ call.fn = "add_month"
    /\ call' = Called("add_month_back", call.args,
                      add_month(call.out[1], call.out[2], -call.args[3]))
    /\ UNCHANGED session

CallShiftMonth ==
    /\ call.fn = "args"
    /\ call' = Called("shift_month", call.args,
                      shift_month(call.args[1], call.args[2], call.args[3]))
    /\ UNCHANGED session

\* date(y, m, 1) needs a year date supports
CallWindowForMonth ==
    /\ call.fn = "args"
    /\ call.args[1] \in DateYears
    /\ call' = Called("window_for_month", <<call.args[1], call.args[2]>>,
                      window_for_month(call.args[1], call.args[2]))
    /\ UNCHANGED session

CallIterMonthDays ==
    /\ call.fn = "args"
    /\ call.args[1] \in DateYears
    /\ call' = Called("iter_month_days", <<call.args[1], call.args[2]>>,
                      iter_month_days(call.args[1], call.args[2]))
    /\ UNCHANGED session

NextDate ==
    \/ CallAddMonth
    \/ CallAddMonthBack
    \/ CallShiftMonth
    \/ CallWindowForMonth
    \/ CallIterMonthDays

SpecDate == InitDate /\ [][NextDate]_vars

---------------------------------------------------------------------------
(* insert_events_bulk applied to bounded arguments *)

RecurStarts ==
    {Date(2025, 1, 1), Date(2025, 1, 31), Date(2024, 2, 29), Date(2025, 12, 25)}

\* end dates, as days after the start date
RecurOffsets == {-30, -1, 0, 1, 7, 21, 60, 2100}

\* the recurrence chip: None, or one of the four chip values (lines 317-320)
RecurChoices == {None, Some("none"), Some("daily"), Some("weekly"), Some("monthly")}

\* start date, end date and recurrence chip are drawn first
InitRecur ==
    /\ Idle
    /\ \E start_date \in RecurStarts, recur \in RecurChoices :
          \E end_date \in {None} \cup {Some(AddDays(start_date, k)) : k \in RecurOffsets} :
             call = Called("args", <<start_date, end_date, recur>>, <<>>)

\* the frequency reaches insert_events_bulk as save_event passes it (line 466)
CallInsertEventsBulk ==
    /\ call.fn = "args"
    /\ call' = Called("insert_events_bulk", call.args,
                      BuildDates(call.args[1], call.args[2], FreqOf(call.args[3])))
    /\ UNCHANGED session

NextRecur == CallInsertEventsBulk

SpecRecur == InitRecur /\ [][NextRecur]_vars

---------------------------------------------------------------------------
(* The add-event form filled in, and a gateway that may fail *)

\* the month and the day the page is opened on
SaveMonth == MonthCtx(2025, 9)

SaveDay == Date(2025, 9, 5)

FormTitles == {None, Some(<<" ">>), Some(<<"S", "y", "n", "c">>)}

FormTimes ==
    {None, Some(<<"0", "9", ":", "3", "0">>), Some(<<"9", ":", "3", "0", " ", "P", "M">>),
     Some(<<"s", "o", "o", "n">>)}

FormAuthors == {Some(<<"D", "a", "n", "i", "e", "l">>)}

FormRecurs == {Some("none"), Some("daily"), Some("weekly")}

\* end dates of the recurrence: none, before, on and after the day selected
FormEnds ==
    {None, Some(IsoFormat(Date(2025, 9, 3))), Some(IsoFormat(SaveDay)),
     Some(IsoFormat(Date(2025, 9, 12)))}

Forms == FormTitles \X FormTimes \X FormAuthors \X FormRecurs \X FormEnds

\* the gateway calls that may raise
LoadFaults == {"none", "fetch"}

SaveFaults == {"none", "insert", "fetch"}

\* the page as layout() builds it, and the values the form is filled in with
InitSave ==
    /\ cal_month = SaveMonth
    /\ selected_date = IsoFormat(SaveDay)
    /\ events_store = <<>>
    /\ cache_range = None
    /\ events_loading = TRUE
    /\ db_flash = ""
    /\ modal_opened = FALSE
    /\ table = <<>>
    /\ pending = TRUE
    /\ last = Ran("layout", <<>>, FALSE)
    /\ \E form \in Forms : call = Called("form", form, <<>>)

\* the save button pressed on the form as it is filled in
PressSave(fault) ==
    save_event(call.args[1], call.args[2], call.args[3], call.args[4], call.args[5], fault)

NextSave ==
    \/ \E delta \in {-1, 1} : navigate(delta)
    \/ \E trig \in {"open-add-event", "cancel-event"} : toggle_modal(trig)
    \/ \E fault \in LoadFaults : load_or_use_cache(fault)
    \/ \E fault \in SaveFaults : PressSave(fault)

SpecSave == InitSave /\ [][NextSave]_vars

---------------------------------------------------------------------------
(* Recurrences that reach the safety limit, saved through the form *)

LongTitles == {Some(<<"S", "y", "n", "c">>), Some(<<"G", "y", "m">>)}

LongTimes ==
    {None, Some(<<"0", "9", ":", "3", "0">>), Some(<<"9", ":", "3", "0", " ", "P", "M">>)}

LongRecurs == {Some("daily"), Some("weekly")}

\* end dates one step and 100 steps past the limit-th occurrence
LongEnds(recur) ==
    LET step == IF recur = Some("daily") THEN 1 ELSE 7
    IN  {Some(IsoFormat(AddDays(SaveDay, step * limit))),
         Some(IsoFormat(AddDays(SaveDay, step * (limit + 99))))}

LongForms ==
    UNION {LongTitles \X LongTimes \X FormAuthors \X {recur} \X LongEnds(recur) :
              recur \in LongRecurs}

InitLong ==
    /\ cal_month = SaveMonth
    /\ selected_date = IsoFormat(SaveDay)
    /\ events_store = <<>>
    /\ cache_range = None
    /\ events_loading = TRUE
    /\ db_flash = ""
    /\ modal_opened = FALSE
    /\ table = <<>>
    /\ pending = TRUE
    /\ last = Ran("layout", <<>>, FALSE)
    /\ \E form \in LongForms : call = Called("form", form, <<>>)

\* every gateway call succeeds
NextLong ==
    \/ \E trig \in {"open-add-event", "cancel-event"} : toggle_modal(trig)
    \/ load_or_use_cache("none")
    \/ PressSave("none")

SpecLong == InitLong /\ [][NextLong]_vars

---------------------------------------------------------------------------
(* insert_events_bulk applied twice to the same arguments *)

page == <<cal_month, selected_date, events_store, cache_range,
          events_loading, db_flash, modal_opened, pending, last>>

UpsertStarts == {Date(2025, 9, 5), Date(2025, 1, 31)}

\* end dates, as days after the start date
UpsertOffsets == {14, 62}

UpsertFreqs == {None, Some("daily"), Some("weekly"), Some("monthly")}

UpsertTimes ==
    {None, Some(<<"0", "9", ":", "3", "0">>), Some(<<"9", ":", "3", "0", " ", "A", "M">>)}

UpsertTitle == <<"S", "y", "n", "c">>

UpsertAuthor == <<"D", "a", "n", "i", "e", "l">>

\* the table before the call: empty, or holding the row of an earlier save on
\* the start date, without a time or at 09:30
UpsertTables(start_date) ==
    {<<>>,
     <<Row(start_date, None, UpsertTitle, UpsertAuthor)>>,
     <<Row(start_date, Some(Time(9, 30)), UpsertTitle, UpsertAuthor)>>}

InitUpsert ==
    /\ cal_month = MonthCtx(NavYear, NavFirst)
    /\ selected_date = IsoFormat(Date(NavYear, NavFirst, 1))
    /\ events_store = <<>>
    /\ cache_range = None
    /\ events_loading = TRUE
    /\ db_flash = ""
    /\ modal_opened = FALSE
    /\ pending = TRUE
    /\ last = Ran("layout", <<>>, FALSE)
    /\ \E start_date \in UpsertStarts, freq \in UpsertFreqs, time_str \in UpsertTimes :
          /\ table \in UpsertTables(start_date)
          /\ \E end_date \in {None} \cup {Some(AddDays(start_date, k)) : k \in UpsertOffsets} :
                call = Called("args",
                              <<start_date, end_date, freq, UpsertTitle, UpsertAuthor, time_str>>,
                              <<>>)

\* insert_events_bulk on the arguments drawn
BulkInsert(tbl) ==
    insert_events_bulk(tbl, call.args[1], call.args[2], call.args[3],
                       call.args[4], call.args[5], call.args[6])

\* the first call; out keeps the table it leaves
CallInsertOnce ==
    /\ call.fn = "args"
    /\ table' = BulkInsert(table)
    /\ call' = Called("insert_events_bulk", call.args,
                      [raised |-> BulkRaises(call.args[6]), table |-> table'])
    /\ UNCHANGED page

\* the second call, with the same arguments
CallInsertAgain ==
    /\ call.fn = "insert_events_bulk"
    /\ table' = BulkInsert(table)
    /\ call' = Called("insert_events_bulk_again", call.args,
                      [raised |-> BulkRaises(call.args[6]), table |-> call.out.table])
    /\ UNCHANGED page

NextUpsert ==
    \/ CallInsertOnce
    \/ CallInsertAgain

SpecUpsert == InitUpsert /\ [][NextUpsert]_vars

---------------------------------------------------------------------------
(* month_grid applied to bounded arguments, twice *)

GridMonths == {MonthCtx(2025, 9), MonthCtx(2025, 10)}

\* five events on 2025-09-05 and one on 2025-09-20, in the order of their ids
GridRows ==
    <<Row(Date(2025, 9, 5), Some(Time(17, 4)), <<"R", "u", "n">>, <<"A", "m", "a", "n", "d", "a">>),
      Row(Date(2025, 9, 5), None, <<"S", "y", "n", "c">>, <<"D", "a", "n", "i", "e", "l">>),
      Row(Date(2025, 9, 5), Some(Time(9, 30)), <<"G", "y", "m">>, <<"D", "a", "n", "i", "e", "l">>),
      Row(Date(2025, 9, 5), Some(Time(0, 15)), <<"C", "a", "l", "l">>, <<"B", "o", "b">>),
      Row(Date(2025, 9, 5), Some(Time(12, 0)), <<"L", "u", "n", "c", "h">>, <<"A", "m", "a", "n", "d", "a">>),
      Row(Date(2025, 9, 20), None, <<"T", "r", "i", "p">>, <<"D", "a", "n", "i", "e", "l">>)>>

\* the table after the first n of them were saved
GridTables == {SubSeq(GridRows, 1, n) : n \in 0..Len(GridRows)}

GridSelected == {IsoFormat(Date(2025, 9, 5)), IsoFormat(Date(2025, 9, 20))}

\* the days date.today() returns
GridTodays == {Date(2025, 9, 5), Date(2025, 9, 6), Date(2025, 10, 1)}

\* the mapping is what fetch_events_range returns for the window of the month
InitGrid ==
    /\ Idle
    /\ \E ctx \in GridMonths, tbl \in GridTables, selected_iso \in GridSelected :
          LET win == window_for_month(ctx.year, ctx.month)
          IN  call = Called("args",
                            <<ctx, fetch_events_range(tbl, win[1], win[2]), selected_iso>>,
                            <<>>)

\* out keeps the grid and the day the clock showed to it
CallMonthGrid(today) ==
    /\ call.fn = "args"
    /\ call' = Called("month_grid", call.args,
                      [grids |-> <<month_grid(call.args[1], call.args[2], call.args[3], today)>>,
                       clock |-> <<today>>])
    /\ UNCHANGED session

\* the same arguments again, the same day or later
CallMonthGridAgain(today) ==
    /\ call.fn = "month_grid"
    /\ DateLE(call.out.clock[1], today)
    /\ call' = Called("month_grid_again", call.args,
                      [grids |-> Append(call.out.grids,
                                        month_grid(call.args[1], call.args[2], call.args[3], today)),
                       clock |-> Append(call.out.clock, today)])
    /\ UNCHANGED session

NextGrid ==
    \/ \E today \in GridTodays : CallMonthGrid(today)
    \/ \E today \in GridTodays : CallMonthGridAgain(today)

SpecGrid == InitGrid /\ [][NextGrid]_vars

---------------------------------------------------------------------------
(* db/pg.py: one call of PG.execute_query or PG.execute_many_values *)

\* the attributes __init__ sets on the object
InitAttrs == {"connection"}

\* the attributes _connect reads when it has to open a connection
ConnectAttrs == {"host", "port", "dbname", "user", "password", "connect_timeout"}

\* except (OperationalError, InterfaceError)
ConnectionErrors == {"OperationalError", "InterfaceError"}

\* what running the statement on the cursor does
Outcomes == {"ok", "ProgrammingError"} \cup ConnectionErrors

\* the rows a SELECT finds
PGRowSets == {<<>>, <<"r1">>, <<"r1", "r2">>}

\* execute_query(query, params, fetch) and execute_many_values(base_sql, rows)
PGCalls ==
    [method : {"execute_query"}, fetch : BOOLEAN, rows : {<<>>}]
        \cup [method : {"execute_many_values"}, fetch : {FALSE}, rows : PGRowSets]

\* PG(): the object as __init__ leaves it
PG == [attrs |-> InitAttrs, connection |-> "open"]

\* close(): the connection is closed and forgotten
close(self) == [self EXCEPT !.connection = None]

\* _connect(): nothing to do on an open connection; otherwise the connection
\* parameters are read from the object
_connect(self, reachable) ==
    IF self.connection = "open" THEN [self |-> self, raised |-> ""]
    ELSE IF ~(ConnectAttrs \subseteq self.attrs)
         THEN [self |-> self, raised |-> "AttributeError"]
    ELSE IF reachable THEN [self |-> [self EXCEPT !.connection = "open"], raised |-> ""]
    ELSE [self |-> self, raised |-> "OperationalError"]

\* _ensure_conn()
_ensure_conn(self, reachable) ==
    IF self.connection # "open" THEN _connect(self, reachable)
    ELSE [self |-> self, raised |-> ""]

\* _reconnect(): close, sleep for self.reconnect_backoff_sec, connect
_reconnect(self, reachable) ==
    IF "reconnect_backoff_sec" \notin self.attrs
    THEN [self |-> close(self), raised |-> "AttributeError"]
    ELSE _connect(close(self), reachable)

\* the position in the call: out of call holds the object and the locals
Frame(self, attempts, ran, result, raised) ==
    [self |-> self, attempts |-> attempts, ran |-> ran, result |-> result, raised |-> raised]

InitPG ==
    /\ Idle
    /\ \E c \in PGCalls, found \in PGRowSets, reachable \in BOOLEAN :
          call = Called("args", [call |-> c, found |-> found, reachable |-> reachable], <<>>)

\* pg = PG(); the method is entered: attempts = 0, no rows returns at once
Enter ==
    /\ call.fn = "args"
    /\ call' = IF call.args.call.method = "execute_many_values" /\ call.args.call.rows = <<>>
               THEN Called("returned", call.args, Frame(PG, 0, <<>>, None, ""))
               ELSE Called("try", call.args, Frame(PG, 0, <<>>, None, ""))
    /\ UNCHANGED session

\* one turn of while True up to the except clauses: attempts += 1, the cursor
\* is taken and the statement run, with the outcome the server gives
Attempt(outcome) ==
    /\ call.fn = "try"
    /\ LET f  == call.out
           n  == f.attempts + 1
           e  == _ensure_conn(f.self, call.args.reachable)
           rn == Append(f.ran, outcome)
       IN  call' =
             IF e.raised \in ConnectionErrors
             THEN Called("except", call.args, Frame(e.self, n, f.ran, None, e.raised))
             ELSE IF e.raised # ""
             THEN Called("raised", call.args, Frame(e.self, n, f.ran, None, e.raised))
             ELSE IF outcome = "ok"
             THEN Called("returned", call.args,
                         Frame(e.self, n, rn,
                               IF call.args.call.fetch THEN Some(call.args.found) ELSE None, ""))
             ELSE IF outcome \in ConnectionErrors
             THEN Called("except", call.args, Frame(e.self, n, rn, None, outcome))
             ELSE Called("raised", call.args, Frame(e.self, n, rn, None, outcome))
    /\ UNCHANGED session

\* except (OperationalError, InterfaceError): the second failure is raised;
\* after the first, _reconnect() runs inside the handler, and what it raises
\* leaves the method
Handle ==
    /\ call.fn = "except"
    /\ LET f == call.out
           r == _reconnect(f.self, call.args.reachable)
       IN  call' =
             IF f.attempts >= 2
             THEN Called("raised", call.args, f)
             ELSE IF r.raised # ""
             THEN Called("raised", call.args, Frame(r.self, f.attempts, f.ran, None, r.raised))
             ELSE Called("try", call.args, Frame(r.self, f.attempts, f.ran, None, ""))
    /\ UNCHANGED session

NextPG ==
    \/ Enter
    \/ \E outcome \in Outcomes : Attempt(outcome)
    \/ Handle

SpecPG == InitPG /\ [][NextPG]_vars

---------------------------------------------------------------------------
(* format_time_12h applied to bounded texts *)

\* the minutes written in the texts
ClockMinutes == {0, 4, 30, 59}

\* "HH:MM" as fetch_events_range writes it (line 119), for every hour
StoredTimes == {Pad2(h) \o <<":">> \o Pad2(m) : h \in 0..23, m \in ClockMinutes}

\* times written with a one-digit field
ShortTimes ==
    {<<"9", ":", "3", "0">>, <<"0", ":", "0", "0">>, <<"7", ":", "5">>,
     <<"1", "7", ":", "4">>, <<"1", "2", ":", "0">>}

\* texts strptime("%H:%M") refuses
OtherTexts ==
    {<<"b", "a", "d">>, <<"2", "4", ":", "0", "0">>, <<"1", "2", ":", "6", "0">>,
     <<"1", "7", ":", "0", "4", " ">>, <<" ", "1", "7", ":", "0", "4">>,
     <<"5", ":", "0", "4", " ", "P", "M">>, <<"1", "7", "0", "4">>,
     <<"1", "7", ":", "0", "4", ":", "0", "0">>, <<"-", "1", ":", "0", "0">>,
     <<":">>, <<"1", "7", ":">>, <<"0", "1", "7", ":", "0", "4">>}

TimeTexts == {None, Some(<<>>)} \cup {Some(s) : s \in StoredTimes \cup ShortTimes \cup OtherTexts}

InitTime ==
    /\ Idle
    /\ \E t \in TimeTexts : call = Called("args", <<t>>, <<>>)

CallFormatTime12h ==
    /\ call.fn = "args"
    /\ call' = Called("format_time_12h", call.args, format_time_12h(call.args[1]))
    /\ UNCHANGED session

NextTime == CallFormatTime12h

SpecTime == InitTime /\ [][NextTime]_vars

---------------------------------------------------------------------------
(* Prev and next clicks around a year boundary *)

\* the months the page is opened on
ClickStarts ==
    {MonthCtx(2024, 11), MonthCtx(2024, 12), MonthCtx(2025, 1), MonthCtx(2025, 2),
     MonthCtx(2025, 6)}

\* the clicks of one session
MaxClicks == 4

\* call keeps the month the page was opened on and the clicks made since
InitClicks ==
    /\ cal_month \in ClickStarts
    /\ selected_date = IsoFormat(Date(cal_month.year, cal_month.month, 1))
    /\ events_store = <<>>
    /\ cache_range = None
    /\ events_loading = TRUE
    /\ db_flash = ""
    /\ modal_opened = FALSE
    /\ table = <<>>
    /\ pending = TRUE
    /\ last = Ran("layout", <<>>, FALSE)
    /\ call = Called("clicks", <<cal_month>>, [prev |-> 0, next |-> 0])

\* lines 352-364 with prev-month (delta -1) or next-month (delta 1) triggered,
\* the click counted
Click(delta) ==
    /\ ~pending
    /\ call.out.prev + call.out.next < MaxClicks
    /\ LET nm == shift_month(cal_month.year, cal_month.month, delta)
       IN  cal_month' = [year |-> nm.year, month |-> nm.month]
    /\ pending' = TRUE
    /\ call' = Called("clicks", call.args,
                      IF delta < 0
                      THEN [call.out EXCEPT !.prev = @ + 1]
                      ELSE [call.out EXCEPT !.next = @ + 1])
    /\ UNCHANGED <<selected_date, events_store, cache_range, events_loading,
                   db_flash, modal_opened, table, last>>

NextClicks ==
    \/ \E delta \in {-1, 1} : Click(delta)
    \/ load_or_use_cache("none")

SpecClicks == InitClicks /\ [][NextClicks]_vars

---------------------------------------------------------------------------
(* Properties *)

PrevOf(y, m) == IF m = 1 THEN MonthCtx(y - 1, 12) ELSE MonthCtx(y, m - 1)

NextOf(y, m) == IF m = 12 THEN MonthCtx(y + 1, 1) ELSE MonthCtx(y, m + 1)

FirstDay(ctx) == Date(ctx.year, ctx.month, 1)

\* the first day of month ctx lies in [range.start, range.end)
RangeCovers(range, ctx) ==
    /\ ~IsNone(range)
    /\ ToOrdinal(FromIso(Val(range).start)) <= ToOrdinal(FirstDay(ctx))
    /\ ToOrdinal(FirstDay(ctx)) < ToOrdinal(FromIso(Val(range).end))

\* the rows of tbl dated in [start, end)
RowsIn(tbl, start, end) ==
    {i \in 1..Len(tbl) : /\ ToOrdinal(start) <= ToOrdinal(tbl[i].event_date)
                         /\ ToOrdinal(tbl[i].event_date) < ToOrdinal(end)}

\* map holds the rows of tbl dated in [start, end), and nothing else
HoldsExactly(map, tbl, start, end) ==
    /\ DOMAIN map = {IsoFormat(tbl[i].event_date) : i \in RowsIn(tbl, start, end)}
    /\ \A i \in RowsIn(tbl, start, end) :
          LET k == IsoFormat(tbl[i].event_date)
          IN  /\ \E n \in 1..Len(map[k]) : map[k][n] = EventOf(tbl[i])
              /\ Len(map[k]) =
                    Cardinality({j \in RowsIn(tbl, start, end) : tbl[j].event_date = tbl[i].event_date})

\* the three-month window centred on ctx
CentredWindow(ctx) ==
    LET n == NextOf(ctx.year, ctx.month)
    IN  <<FirstDay(PrevOf(ctx.year, ctx.month)), FirstDay(NextOf(n.year, n.month))>>

RangeOf(win) == Some([start |-> IsoFormat(win[1]), end |-> IsoFormat(win[2])])

\* C1: once load_or_use_cache has run for the displayed month, whenever the
\* cache range is set and covers the first day of that month, events-store
\* holds every stored event of that month.
C1_CachedMonthComplete ==
    (~pending /\ RangeCovers(cache_range, cal_month)) =>
        \A i \in 1..Len(table) :
            (table[i].event_date.year = cal_month.year
                /\ table[i].event_date.month = cal_month.month) =>
            LET k == IsoFormat(table[i].event_date)
            IN  /\ k \in DOMAIN events_store
                /\ \E n \in 1..Len(events_store[k]) : events_store[k][n] = EventOf(table[i])

SaveSucceeded == last.op = "save_event" /\ Len(last.io) = 2 /\ ~last.raised

\* C2: after a successful save_event the stored mapping and the stored cache
\* range describe the same window: the window save_event fetched is the range.
C2_SaveLeavesMatchingRange ==
    SaveSucceeded =>
        /\ ~IsNone(cache_range)
        /\ last.io[2] = Fetch(FromIso(Val(cache_range).start), FromIso(Val(cache_range).end))
        /\ HoldsExactly(events_store, table,
                        FromIso(Val(cache_range).start), FromIso(Val(cache_range).end))

\* C3: a load_or_use_cache whose month lies in the cached range makes no
\* gateway call and leaves the mapping and the range as they were.
C3_CacheHit ==
    [][(pending /\ ~pending' /\ RangeCovers(cache_range, cal_month)) =>
          /\ last' = Ran("load_or_use_cache", <<>>, FALSE)
          /\ events_store' = events_store
          /\ cache_range' = cache_range]_vars

C3_Witness ==
    /\ ~pending
    /\ last = Ran("load_or_use_cache", <<>>, FALSE)
    /\ cal_month = MonthCtx(2025, 9)
    /\ cache_range = RangeOf(<<Date(2025, 8, 1), Date(2025, 11, 1)>>)
    /\ table # <<>>

\* C4: a load_or_use_cache whose month is not covered (no range, or outside
\* it) makes exactly one fetch, over the window centred on the month, and
\* replaces the mapping by what that window holds and the range by the window.
C4_CacheMiss ==
    [][(pending /\ ~pending' /\ ~RangeCovers(cache_range, cal_month)) =>
          LET win == CentredWindow(cal_month)
          IN  /\ last' = Ran("load_or_use_cache", <<Fetch(win[1], win[2])>>, FALSE)
              /\ cache_range' = RangeOf(win)
              /\ HoldsExactly(events_store', table, win[1], win[2])]_vars

\* a miss on December 2025 replaced the range [2025-09-01, 2025-12-01) and
\* dropped an event the old mapping held
C4_Witness ==
    /\ ~pending
    /\ cal_month = MonthCtx(2025, 12)
    /\ cache_range = RangeOf(<<Date(2025, 11, 1), Date(2026, 2, 1)>>)
    /\ last = Ran("load_or_use_cache", <<Fetch(Date(2025, 11, 1), Date(2026, 2, 1))>>, FALSE)
    /\ \E i \in 1..Len(table) : table[i].event_date = Date(2025, 10, 5)
    /\ \E j \in 1..Len(table) : table[j].event_date = Date(2025, 12, 5)
    /\ DOMAIN events_store = {IsoFormat(Date(2025, 12, 5))}

\* the window is [first of the previous month, first of the month after next)
C5_WindowShape ==
    call.fn = "window_for_month" =>
        LET y == call.args[1]
            m == call.args[2]
            n == NextOf(y, m)
        IN  /\ call.out = CentredWindow(MonthCtx(y, m))
            /\ MonthIndex(call.out[2]) - MonthIndex(call.out[1]) = 3
            /\ \A c \in {PrevOf(y, m), MonthCtx(y, m), n} :
                  RangeCovers(RangeOf(call.out), c)

\* C5: window_for_month(y, m) is the three-month exclusive range from the
\* first of the previous month to the first of the month after next, and the
\* month navigate shows after one prev or next click from (y, m) lies in it.
C5_WindowServesNavigation ==
    /\ C5_WindowShape
    /\ call.fn = "window_for_month" =>
          \A delta \in {-1, 1} :
              RangeCovers(RangeOf(call.out),
                          shift_month(call.args[1], call.args[2], delta))

\* C6: shift_month(y, m, delta) is the month add_month(y, m, delta) gives.
C6_ShiftMonthIsAddMonth ==
    call.fn = "shift_month" =>
        LET a == add_month(call.args[1], call.args[2], call.args[3])
        IN  call.out = MonthCtx(a[1], a[2])

\* C7: add_month by delta and then by -delta gives back (y, m).
C7_AddMonthRoundTrip ==
    call.fn = "add_month_back" => call.out = <<call.args[1], call.args[2]>>

C7_Witness == call = Called("add_month_back", <<2025, 1, -2>>, <<2025, 1>>)

\* C8: add_month(y, m, delta) is the month with index y*12 + (m-1) + delta,
\* its month in 1..12, also when the index is negative.
C8_AddMonthIndex ==
    call.fn = "add_month" =>
        /\ call.out[2] \in 1..12
        /\ call.out[1] * 12 + (call.out[2] - 1)
              = call.args[1] * 12 + (call.args[2] - 1) + call.args[3]

C8_Witness == call = Called("add_month", <<2025, 3, -3>>, <<2024, 12>>)

\* C9: iter_month_days gives 6 rows of 7 dates, each one day after the one
\* before; the first is the Sunday on or before the 1st of the month, and every
\* day of the month is in the grid.
C9_MonthGrid ==
    call.fn = "iter_month_days" =>
        LET weeks   == call.out
            first   == Date(call.args[1], call.args[2], 1)
            cell(k) == weeks[((k - 1) \div 7) + 1][((k - 1) % 7) + 1]
        IN  /\ DOMAIN weeks = 1..6
            /\ \A w \in 1..6 : Len(weeks[w]) = 7
            /\ \A k \in 1..41 : ToOrdinal(cell(k + 1)) = ToOrdinal(cell(k)) + 1
            /\ Weekday(cell(1)) = 6
            /\ ToOrdinal(first) - ToOrdinal(cell(1)) \in 0..6
            /\ \A d \in 1..DaysInMonth(call.args[1], call.args[2]) :
                  \E k \in 1..42 : cell(k) = Date(call.args[1], call.args[2], d)

C9_Witness ==
    /\ call.fn = "iter_month_days"
    /\ call.args = <<2025, 9>>
    /\ call.out[1][1] = Date(2025, 8, 31)
    /\ call.out[6][7] = Date(2025, 10, 11)

\* C10: without a frequency (chip unset or "none"), without an end date, or
\* with an end date not after the start date, insert_events_bulk persists
\* exactly the start date.
C10_SingleOccurrence ==
    (/\ call.fn = "insert_events_bulk"
     /\ \/ call.args[3] \in {None, Some("none")}
        \/ IsNone(call.args[2])
        \/ ToOrdinal(Val(call.args[2])) <= ToOrdinal(call.args[1]))
    => call.out = <<call.args[1]>>

C10_Witness ==
    call = Called("insert_events_bulk",
                  <<Date(2025, 1, 1), Some(Date(2025, 1, 1)), Some("daily")>>,
                  <<Date(2025, 1, 1)>>)

\* the recurrence of a call of insert_events_bulk: its end date is after its start
Recurs(freqs) ==
    /\ call.fn = "insert_events_bulk"
    /\ call.args[3] \in freqs
    /\ ~IsNone(call.args[2])
    /\ ToOrdinal(Val(call.args[2])) > ToOrdinal(call.args[1])

\* C11: for daily (step 1) and weekly (step 7) recurrences that end after the
\* start and have fewer than 2000 occurrences, the dates persisted are exactly
\* start + k*step for k = 0, 1, ... up to the end date, in increasing order,
\* the first being the start date and the last within one step of the end date.
C11_DailyWeeklyDates ==
    Recurs({Some("daily"), Some("weekly")}) =>
        LET step == IF call.args[3] = Some("daily") THEN 1 ELSE 7
            s    == ToOrdinal(call.args[1])
            e    == ToOrdinal(Val(call.args[2]))
            n    == ((e - s) \div step) + 1
        IN  n < 2000 =>
               /\ Len(call.out) = n
               /\ call.out[1] = call.args[1]
               /\ \A k \in 1..n : call.out[k] = FromOrdinal(s + (k - 1) * step)
               /\ e - ToOrdinal(call.out[n]) \in 0..(step - 1)

\* weekly from 2025-01-01 to 2025-01-22: four dates, 01-22 among them
C11_Witness ==
    call = Called("insert_events_bulk",
                  <<Date(2025, 1, 1), Some(Date(2025, 1, 22)), Some("weekly")>>,
                  <<Date(2025, 1, 1), Date(2025, 1, 8), Date(2025, 1, 15), Date(2025, 1, 22)>>)

\* the date k months after d with d's day of the month, or the last day of
\* that month when it is shorter
MonthsAfter(d, k) ==
    LET n == add_month(d.year, d.month, k)
        l == DaysInMonth(n[1], n[2])
    IN  Date(n[1], n[2], IF d.day > l THEN l ELSE d.day)

\* C12: for a monthly recurrence the k-th date persisted is the start date
\* advanced by k months, on the start date's day of the month wherever the
\* month has that day and on the month's last day only where it has not.
C12_MonthlySameDay ==
    Recurs({Some("monthly")}) =>
        \A k \in 1..Len(call.out) : call.out[k] = MonthsAfter(call.args[1], k - 1)

\* the rows the last save_event handed to the gateway
SavedRows == last.io[1][2]

\* C13: a save never hands more than 2000 rows to the gateway; when the end
\* date implies more occurrences, the rows are exactly the first 2000
\* occurrences, all of them are in the table, and the save ends as a success:
\* nothing raised, and the flash is that of a saved recurrence.
C13_SafetyCap ==
    last.op = "save_event" =>
        LET recur   == call.args[4]
            step    == IF recur = Some("daily") THEN 1 ELSE 7
            s       == ToOrdinal(FromIso(selected_date))
            e       == ToOrdinal(FromIso(Val(call.args[5])))
            implied == ((e - s) \div step) + 1
        IN  /\ Len(last.io) >= 1 => Len(SavedRows) <= 2000
            /\ implied > 2000 =>
                  /\ SaveSucceeded
                  /\ Len(SavedRows) = 2000
                  /\ \A k \in 1..2000 :
                        /\ SavedRows[k].event_date = FromOrdinal(s + (k - 1) * step)
                        /\ \E i \in {k} : i <= Len(table) /\ table[i] = SavedRows[k]
                  /\ Len(table) = 2000
                  /\ db_flash = (IF recur = Some("daily")
                                 THEN "Recurring events saved (daily)."
                                 ELSE "Recurring events saved (weekly).")

\* a weekly recurrence cut after 2000 weeks
C13_Witness ==
    /\ SaveSucceeded
    /\ call.args[4] = Some("weekly")
    /\ call.args[5] = Some(IsoFormat(AddDays(SaveDay, 7 * 2099)))
    /\ Len(table) = 2000
    /\ table[2000].event_date = AddDays(SaveDay, 7 * 1999)
    /\ db_flash = "Recurring events saved (weekly)."

\* text that is absent, empty or blanks only
Blank(t) == IsNone(t) \/ \A i \in 1..Len(Val(t)) : Val(t)[i] = " "

\* the form holds a user-input error: no title, a recurrence without an end
\* date or with one before the selected day, or time text in neither format
InputError ==
    LET recurring == call.args[4] \in {Some("daily"), Some("weekly"), Some("monthly")}
        ts        == Strip(Val(call.args[2]))
    IN  \/ Blank(call.args[1])
        \/ recurring /\ IsNone(call.args[5])
        \/ recurring /\ ~IsNone(call.args[5])
             /\ ToOrdinal(FromIso(Val(call.args[5]))) < ToOrdinal(FromIso(selected_date))
        \/ ~IsNone(call.args[2]) /\ Val(call.args[2]) # <<>>
             /\ IsNone(ParseTime24(ts)) /\ IsNone(ParseTime12(ts))

\* a step of save_event: nothing else changes last or db_flash while the page is at rest
SaveStep == ~pending /\ (last' # last \/ db_flash' # db_flash)

\* C14: save_event on a form with a user-input error makes no gateway call,
\* raises nothing, leaves the modal, the mapping, the cache range and the table
\* as they were, and sets the flash to a message.
C14_InputErrorsRejected ==
    [][(SaveStep /\ InputError) =>
          /\ last' = Ran("save_event", <<>>, FALSE)
          /\ db_flash' \in {"Title required.",
                            "Please choose an end date for the recurrence.",
                            "End date must be on or after the start date.",
                            "DB error"}
          /\ modal_opened' = modal_opened
          /\ events_store' = events_store
          /\ cache_range' = cache_range
          /\ table' = table]_vars

\* time text "soon" was rejected with the mapping loaded and the modal still open
C14_Witness ==
    /\ last = Ran("save_event", <<>>, FALSE)
    /\ call.args[1] = Some(<<"S", "y", "n", "c">>)
    /\ call.args[2] = Some(<<"s", "o", "o", "n">>)
    /\ db_flash = "DB error"
    /\ modal_opened
    /\ ~IsNone(cache_range)
    /\ table = <<>>

\* C15: a run of load_or_use_cache or save_event in which a gateway call raised
\* leaves the mapping and the cache range as they were; save_event reports it
\* in the flash and leaves the modal as it was.
C15_GatewayFailureKeepsCache ==
    [][(last' # last /\ last'.raised) =>
          /\ events_store' = events_store
          /\ cache_range' = cache_range
          /\ last'.op = "save_event" =>
                (db_flash' = "DB error" /\ modal_opened' = modal_opened)]_vars

\* the fetch for November 2025 failed: the mapping and the range of the
\* window around September are still there
C15_Witness ==
    /\ last = Ran("load_or_use_cache", <<Fetch(Date(2025, 10, 1), Date(2026, 1, 1))>>, TRUE)
    /\ cal_month = MonthCtx(2025, 11)
    /\ cache_range = RangeOf(<<Date(2025, 8, 1), Date(2025, 11, 1)>>)
    /\ IsoFormat(SaveDay) \in DOMAIN events_store

\* C17: a successful save of a non-recurring event without a time, made while
\* the month of the selected day D is displayed, fetches the three-month window
\* of that month, and the mapping it returns holds under D's ISO date the
\* record with the title and the author of the form and no time.
C17_SavedEventIsFetched ==
    [][(/\ SaveStep
        /\ last' = Ran("save_event", last'.io, FALSE) /\ Len(last'.io) = 2
        /\ call.args[4] \in {None, Some("none")}
        /\ IsNone(call.args[2])
        /\ cal_month = MonthCtx(FromIso(selected_date).year, FromIso(selected_date).month))
       => /\ last'.io[2] = Fetch(CentredWindow(cal_month)[1], CentredWindow(cal_month)[2])
          /\ selected_date \in DOMAIN events_store'
          /\ \E n \in 1..Len(events_store'[selected_date]) :
                events_store'[selected_date][n] =
                    [title  |-> Strip(Val(call.args[1])),
                     time   |-> None,
                     author |-> Strip(Val(call.args[3]))]]_vars

\* "Sync" by "Daniel" saved on 2025-09-05 with September 2025 displayed
C17_Witness ==
    /\ SaveSucceeded
    /\ cal_month = MonthCtx(2025, 9)
    /\ last.io[2] = Fetch(Date(2025, 8, 1), Date(2025, 11, 1))
    /\ call.args[2] = None
    /\ call.args[4] = Some("none")
    /\ events_store = (IsoFormat(Date(2025, 9, 5)) :>
                          <<[title  |-> <<"S", "y", "n", "c">>,
                             time   |-> None,
                             author |-> <<"D", "a", "n", "i", "e", "l">>]>>)

\* C16: insert_events_bulk called a second time with the same arguments
\* raises nothing and leaves the table with the records the first call left;
\* no two records of the table share (date, time, title, author).
C16_IdempotentUpsert ==
    call.fn = "insert_events_bulk_again" =>
        /\ ~call.out.raised
        /\ {table[i] : i \in 1..Len(table)}
              = {call.out.table[i] : i \in 1..Len(call.out.table)}
        /\ Len(table) = Len(call.out.table)
        /\ \A i, j \in 1..Len(table) : table[i] = table[j] => i = j

\* three weekly occurrences without a time, the first of them in the table
\* before: the second call dropped all three
C16_Witness ==
    /\ call.fn = "insert_events_bulk_again"
    /\ call.args[1] = Date(2025, 9, 5)
    /\ call.args[2] = Some(Date(2025, 9, 19))
    /\ call.args[3] = Some("weekly")
    /\ call.args[6] = None
    /\ Len(table) = 3
    /\ table[1] = Row(Date(2025, 9, 5), None, UpsertTitle, UpsertAuthor)
    /\ table[3] = Row(Date(2025, 9, 19), None, UpsertTitle, UpsertAuthor)

\* C18: every cell of the grid shows the first events of its day, in the
\* order of the mapping, as badges, three at most; the marker "+N more" is
\* there exactly when the day has more than three events, and N is their
\* number less three.
C18_BadgesAndOverflow ==
    call.fn \in {"month_grid", "month_grid_again"} =>
        \A g \in 1..Len(call.out.grids), w \in 1..6, c \in 1..7 :
            LET cell  == call.out.grids[g][w][c]
                evs   == IF cell.id \in DOMAIN call.args[2] THEN call.args[2][cell.id] ELSE <<>>
                n     == Len(evs)
                shown == IF n < 3 THEN n ELSE 3
                plain == {k \in 1..Len(cell.badges) : cell.badges[k].className = "cal-badge"}
                extra == {k \in 1..Len(cell.badges) :
                             cell.badges[k].className = "cal-badge cal-badge--more"}
            IN  /\ plain = 1..shown
                /\ \A k \in plain : cell.badges[k] = Badge(evs[k])
                /\ Len(cell.badges) = Cardinality(plain) + Cardinality(extra)
                /\ extra = IF n > 3 THEN {4} ELSE {}
                /\ \A k \in extra :
                      cell.badges[k].text = <<"+">> \o Decimal(n - 3) \o <<" ", "m", "o", "r", "e">>

\* 2025-09-05 with five events: the badges of 00:15, 09:30 and 12:00, then "+2 more"
C18_Witness ==
    /\ call.fn = "month_grid"
    /\ call.args[1] = MonthCtx(2025, 9)
    /\ IsoFormat(Date(2025, 9, 5)) \in DOMAIN call.args[2]
    /\ Len(call.args[2][IsoFormat(Date(2025, 9, 5))]) = 5
    /\ LET cell == call.out.grids[1][1][6]
       IN  /\ cell.id = IsoFormat(Date(2025, 9, 5))
           /\ Len(cell.badges) = 4
           /\ cell.badges[1].text
                 = <<"1", "2", ":", "1", "5", " ", "A", "M", " ", "·", " ", "C", "a", "l", "l">>
           /\ cell.badges[2].text
                 = <<"9", ":", "3", "0", " ", "A", "M", " ", "·", " ", "G", "y", "m">>
           /\ cell.badges[4].text = <<"+", "2", " ", "m", "o", "r", "e">>

\* C19: two calls of month_grid with the same month, mapping and selected date
\* give the same grid, the today marker of every cell included.
C19_GridIsFunctionOfInputs ==
    call.fn = "month_grid_again" => call.out.grids[1] = call.out.grids[2]

\* C20: a call whose first attempt fails with OperationalError or
\* InterfaceError while the database can be reached again runs the statement a
\* second time and returns its result, or raises the second connection error;
\* any other error is raised after one attempt; there are never more than two
\* attempts and an error is never swallowed.
C20_RetryOnce ==
    call.fn \in {"returned", "raised"} =>
        LET f == call.out
        IN  /\ f.attempts <= 2
            /\ call.fn = "returned" =>
                  f.raised = "" /\ (f.ran = <<>> \/ f.ran[Len(f.ran)] = "ok")
            /\ (Len(f.ran) >= 1 /\ f.ran[1] \notin ConnectionErrors /\ f.ran[1] # "ok") =>
                  call.fn = "raised" /\ f.raised = f.ran[1] /\ f.attempts = 1
            /\ (Len(f.ran) >= 1 /\ f.ran[1] \in ConnectionErrors /\ call.args.reachable) =>
                  /\ Len(f.ran) = 2
                  /\ f.self.connection = "open"
                  /\ f.ran[2] = "ok" => call.fn = "returned"
                  /\ f.ran[2] # "ok" => call.fn = "raised" /\ f.raised = f.ran[2]

\* the 12-hour form of hour h and minute m: 0 -> 12 AM, 1..11 -> AM,
\* 12 -> 12 PM, 13..23 -> h - 12 PM, no leading zero, two-digit minutes
TwelveHourText(h, m) ==
    Decimal(IF h = 0 THEN 12 ELSE IF h <= 12 THEN h ELSE h - 12)
        \o <<":">> \o Pad2(m) \o <<" ">> \o (IF h <= 11 THEN <<"A", "M">> ELSE <<"P", "M">>)

\* what format_time_12h owes a text when Written(n) is the set of ways a
\* field of value n is written: "" for None and "", the 12-hour form for a
\* valid text, the text itself otherwise
Formatted(Written(_)) ==
    call.fn = "format_time_12h" =>
        LET t     == call.args[1]
            reads == {hm \in (0..23) \X (0..59) :
                         \E a \in Written(hm[1]), b \in Written(hm[2]) :
                            Val(t) = a \o <<":">> \o b}
        IN  IF t = None \/ t = Some(<<>>) THEN call.out = <<>>
            ELSE IF reads # {}
            THEN \E hm \in reads : call.out = TwelveHourText(hm[1], hm[2])
            ELSE call.out = Val(t)

\* a field of exactly two digits
TwoDigits(n) == {Pad2(n)}

\* a field as %H and %M read it: one digit or two
OneOrTwoDigits(n) == {Pad2(n)} \cup (IF n <= 9 THEN {Decimal(n)} ELSE {})

\* C21 as stated: a text "HH:MM" of two digits each, hour 0..23 and minute
\* 0..59, is mapped to its 12-hour form without leading zero and with AM or
\* PM; None and "" are mapped to ""; every other text is returned verbatim.
C21_TwoDigitTimes == Formatted(TwoDigits)

\* C21, amended: the texts mapped to the 12-hour form are those whose hour
\* (0..23) and minute (0..59) are written with one digit or two; None and ""
\* are mapped to ""; every other text is returned verbatim.
C21_Format12h == Formatted(OneOrTwoDigits)

\* "17:04" gives "5:04 PM"
C21_Witness ==
    /\ call.fn = "format_time_12h"
    /\ call.args[1] = Some(<<"1", "7", ":", "0", "4">>)
    /\ call.out = <<"5", ":", "0", "4", " ", "P", "M">>

\* C22: after any sequence of prev and next clicks the displayed month is a
\* month 1..12 whose index year * 12 + (month - 1) is the index of the
\* starting month plus the number of next clicks less the number of prev
\* clicks; prev followed by next returns to the starting month.
C22_OneMonthPerClick ==
    call.fn = "clicks" =>
        /\ cal_month.month \in 1..12
        /\ MonthIndex(cal_month)
              = MonthIndex(call.args[1]) + call.out.next - call.out.prev

===========================================================================
